---- MODULE Spec2Model ----
(***************************************************************************)
(* Community event registration: the entity store (users, events,          *)
(* event registrations), the registration rule engine of models.py and     *)
(* the request handlers of routes/*.py that read and write the store.      *)
(*                                                                         *)
(* A request is one action: the handler runs from its first line to its    *)
(* redirect.  `last` holds what the client saw of the most recent request: *)
(* the handler, the caller, the id in the URL, the flashed message and     *)
(* the HTTP status.  Time is the integer clock `now` (datetime.utcnow()).  *)
(*                                                                         *)
(* A handler takes its caller, current_user, as a parameter.  `session`    *)
(* is the session cookie of one client that is followed from login to      *)
(* logout: the user id Flask-Login stored in it, or 0.  The requests of    *)
(* that client pass through login_required before they reach a handler.    *)
(*                                                                         *)
(* A registration row is kept without its surrogate primary key: the       *)
(* table is a bag of (user_id, event_id, status) rows, so that two rows    *)
(* for one (user, event) pair are two copies of one element.               *)
(***************************************************************************)
EXTENDS Integers, FiniteSets, Bags, TLC

\* ---- bounds of the model -------------------------------------------------
MaxUsers == 4
MaxEvents == 2
MaxCap == 2
MaxTime == 1
MaxInflight == 2

\* ---- domains -------------------------------------------------------------
UserIds == 1..MaxUsers
EventIds == 1..MaxEvents
Names == 1..MaxUsers
Times == 0..MaxTime
Workers == 1..MaxInflight

\* registration_deadline is nullable: the absent deadline
NoDeadline == -1

Statuses == {"draft", "published", "cancelled"}

\* what a client may type into the capacity, date and deadline fields
CapInputs == -1..MaxCap
DateInputs == 1..(MaxTime + 1)
DeadlineInputs == {NoDeadline} \cup (1..MaxTime)

VARIABLES users, events, registrations, now, pending, last, session

vars == <<users, events, registrations, now, pending, last, session>>

Max(a, b) == IF a >= b THEN a ELSE b

SetMax(S) == CHOOSE x \in S : \A y \in S : y <= x

\* the id the store gives a new row: one more than the largest id in use
NextId(ids) == IF ids = {} THEN 1 ELSE SetMax(ids) + 1

\* ---- models.py: User ------------------------------------------------------
is_admin(u) == users[u].role = "admin"

\* a role check that every account passes
is_organizer_anyone(u) == TRUE

is_organizer(u) == users[u].role \in {"admin", "organizer"}

\* ---- models.py: Event (the registration rule engine) ----------------------
RowsOfEvent(regs, e) == {r \in BagToSet(regs) : r.event_id = e}

RowsOfUser(regs, u) == {r \in BagToSet(regs) : r.user_id = u}

BagCount(regs, S) == BagCardinality([r \in S |-> CopiesIn(r, regs)])

get_registration_count(e) == BagCount(registrations, RowsOfEvent(registrations, e))

\* a window test that is still open at the deadline instant
is_registration_open_through_deadline(e) ==
    IF events[e].registration_deadline # NoDeadline
    THEN now <= events[e].registration_deadline /\ events[e].status = "published"
    ELSE events[e].status = "published"

\* a window test that looks at the deadline only
is_registration_open_by_deadline(e) ==
    IF events[e].registration_deadline # NoDeadline
    THEN now < events[e].registration_deadline
    ELSE TRUE

is_registration_open(e) ==
    IF events[e].registration_deadline # NoDeadline
    THEN now < events[e].registration_deadline /\ events[e].status = "published"
    ELSE events[e].status = "published"

\* the difference without the max(0, ...)
available_spots_unclamped(e) == events[e].capacity - get_registration_count(e)

available_spots(e) == Max(0, events[e].capacity - get_registration_count(e))

\* a fullness test with < in place of <=
is_full_strict(e) == available_spots(e) < 0

is_full(e) == available_spots(e) <= 0

\* a lookup that finds nothing
is_user_registered_never(e, u) == FALSE

is_user_registered(e, u) ==
    \E r \in RowsOfEvent(registrations, e) : r.user_id = u

\* ---- the store ------------------------------------------------------------
Row(u, e) == [user_id |-> u, event_id |-> e, status |-> "registered"]

\* the rows of a bag that satisfy keep(r), with their multiplicities
Restrict(regs, S) == [r \in S |-> CopiesIn(r, regs)]

\* a store that does not enforce the constraint
UniqueNeverViolated(regs, u, e) == FALSE

\* UniqueConstraint('user_id', 'event_id')
UniqueViolated(regs, u, e) ==
    \E r \in BagToSet(regs) : r.user_id = u /\ r.event_id = e

\* a worker that holds no request
Idle == [user_id |-> 0, event_id |-> 0]

Resp(op, caller, target, flash, code) ==
    [op |-> op, caller |-> caller, target |-> target, flash |-> flash, code |-> code]

\* werkzeug generate_password_hash / check_password_hash: the stored value is
\* not the password, and a password verifies against its own hash only
generate_password_hash(password) == [pbkdf2 |-> password]

check_password_hash(hash, password) == hash = [pbkdf2 |-> password]

\* User(username, email, password, first_name, last_name, role); is_active
\* defaults to True
UserRecord(username, email, password, first_name, last_name, role) ==
    [username |-> username, email |-> email,
     password_hash |-> generate_password_hash(password),
     first_name |-> first_name, last_name |-> last_name,
     role |-> role, is_active |-> TRUE]

\* the seeded store: an administrator, an organizer and a plain user; no events
Init ==
    /\ users = (1 :> UserRecord(1, 1, 1, 1, 1, "admin"))
            @@ (2 :> UserRecord(2, 2, 2, 2, 2, "organizer"))
            @@ (3 :> UserRecord(3, 3, 3, 3, 3, "user"))
    /\ events = <<>>
    /\ registrations = EmptyBag
    /\ now = 0
    /\ pending = [w \in Workers |-> Idle]
    /\ last = Resp("init", 0, 0, "", 200)
    /\ session = 0

\* datetime.utcnow() advances
Tick ==
    /\ now < MaxTime
    /\ now' = now + 1
    /\ last' = Resp("tick", 0, 0, "", 200)
    /\ UNCHANGED <<users, events, registrations, pending, session>>

\* ---- forms.py -------------------------------------------------------------
\* DataRequired on an IntegerField: the value 0 counts as missing
CapacityValid(cap) == cap # 0

\* EventForm: capacity, status choices, validate_event_date,
\* validate_registration_deadline
EventFormValid(cap, st, date, dl) ==
    /\ CapacityValid(cap)
    /\ st \in Statuses
    /\ ~(date <= now)
    /\ ~(dl # NoDeadline /\ dl >= date)

\* AdminEventEditForm: capacity and status choices only
AdminEventEditFormValid(cap, st, date, dl) ==
    /\ CapacityValid(cap)
    /\ st \in Statuses

\* a sign-up form that validates the user name only
RegistrationFormValidUsernameOnly(username, email) ==
    ~(\E u \in DOMAIN users : users[u].username = username)

\* RegistrationForm.validate_username / validate_email
RegistrationFormValid(username, email) ==
    /\ ~(\E u \in DOMAIN users : users[u].username = username)
    /\ ~(\E u \in DOMAIN users : users[u].email = email)

\* ---- routes/auth_routes.py -------------------------------------------------
\* POST /auth/register by a client that is not logged in
SignUp(username, email, password, first_name, last_name) ==
    /\ UNCHANGED <<events, registrations, now, pending, session>>
    /\ IF RegistrationFormValid(username, email)
       THEN /\ users' = users @@ (NextId(DOMAIN users) :>
                   UserRecord(username, email, password, first_name, last_name, "user"))
            /\ last' = Resp("register", 0, NextId(DOMAIN users),
                            "Registration successful! Please log in to continue.", 302)
       ELSE /\ UNCHANGED users
            /\ last' = Resp("register", 0, 0, "", 200)

\* ---- routes/event_routes.py -------------------------------------------------
EventRecord(u, cap, st, date, dl) ==
    [creator_id |-> u, capacity |-> cap, status |-> st,
     event_date |-> date, registration_deadline |-> dl]

\* POST /events/create
CreateEvent(u, cap, st, date, dl) ==
    /\ u \in DOMAIN users
    /\ UNCHANGED <<users, registrations, now, pending, session>>
    /\ IF ~is_organizer(u)
       THEN /\ UNCHANGED events
            /\ last' = Resp("create_event", u, 0,
                            "You do not have permission to create events.", 302)
       ELSE IF EventFormValid(cap, st, date, dl)
       THEN /\ events' = events @@ (NextId(DOMAIN events) :> EventRecord(u, cap, st, date, dl))
            /\ last' = Resp("create_event", u, NextId(DOMAIN events),
                            "Event created successfully!", 302)
       ELSE /\ UNCHANGED events
            /\ last' = Resp("create_event", u, 0, "", 200)

\* the edit handlers assign every form field and keep the creator
UpdatedEvent(e, cap, st, date, dl) ==
    [events EXCEPT ![e] = EventRecord(events[e].creator_id, cap, st, date, dl)]

\* an ownership test that lets every caller through
MayMutateEventAnyone(u, e) == TRUE

\* creator or admin may edit and delete through the event routes
MayMutateEvent(u, e) == ~(events[e].creator_id # u /\ ~is_admin(u))

\* POST /events/<e>/edit
EditEvent(u, e, cap, st, date, dl) ==
    /\ u \in DOMAIN users
    /\ UNCHANGED <<users, registrations, now, pending, session>>
    /\ IF e \notin DOMAIN events
       THEN /\ UNCHANGED events
            /\ last' = Resp("edit_event", u, e, "", 404)
       ELSE IF ~MayMutateEvent(u, e)
       THEN /\ UNCHANGED events
            /\ last' = Resp("edit_event", u, e, "", 403)
       ELSE IF EventFormValid(cap, st, date, dl)
       THEN /\ events' = UpdatedEvent(e, cap, st, date, dl)
            /\ last' = Resp("edit_event", u, e, "Event updated successfully!", 302)
       ELSE /\ UNCHANGED events
            /\ last' = Resp("edit_event", u, e, "", 200)

\* db.session.delete(event): Event.registrations has cascade 'all, delete-orphan'
EventsWithout(e) == [x \in DOMAIN events \ {e} |-> events[x]]

\* a delete that leaves the registrations of the event in place
RegistrationsKept(regs, e) == regs

RegistrationsWithoutEvent(regs, e) ==
    Restrict(regs, BagToSet(regs) \ RowsOfEvent(regs, e))

\* POST /events/<e>/delete
DeleteEvent(u, e) ==
    /\ u \in DOMAIN users
    /\ UNCHANGED <<users, now, pending, session>>
    /\ IF e \notin DOMAIN events
       THEN /\ UNCHANGED <<events, registrations>>
            /\ last' = Resp("delete_event", u, e, "", 404)
       ELSE IF ~MayMutateEvent(u, e)
       THEN /\ UNCHANGED <<events, registrations>>
            /\ last' = Resp("delete_event", u, e, "", 403)
       ELSE /\ events' = EventsWithout(e)
            /\ registrations' = RegistrationsWithoutEvent(registrations, e)
            /\ last' = Resp("delete_event", u, e, "Event deleted successfully!", 302)

\* the admission checks without the creator check
AdmissionFlashWithoutCreatorCheck(u, e) ==
    IF ~is_registration_open(e) THEN "Registration for this event is closed."
    ELSE IF is_full(e) THEN "This event is fully booked."
    ELSE IF is_user_registered(e, u) THEN "You are already registered for this event."
    ELSE ""

\* the admission checks with the duplicate check moved in front of the others
AdmissionFlashDuplicateFirst(u, e) ==
    IF is_user_registered(e, u) THEN "You are already registered for this event."
    ELSE IF ~is_registration_open(e) THEN "Registration for this event is closed."
    ELSE IF is_full(e) THEN "This event is fully booked."
    ELSE IF events[e].creator_id = u THEN "You cannot register for your own event."
    ELSE ""

\* the admission checks of register_for_event, in the handler's order;
\* "" when all four pass
AdmissionFlash(u, e) ==
    IF ~is_registration_open(e) THEN "Registration for this event is closed."
    ELSE IF is_full(e) THEN "This event is fully booked."
    ELSE IF is_user_registered(e, u) THEN "You are already registered for this event."
    ELSE IF events[e].creator_id = u THEN "You cannot register for your own event."
    ELSE ""

\* a commit whose failed INSERT is not rolled back
CommitWithoutRollback(regs, u, e) == regs (+) SetToBag({Row(u, e)})

\* a commit with the db.session.add(registration) left out
CommitWithoutAdd(regs, u, e) == regs

\* db.session.add(registration); db.session.commit(): the INSERT fails on the
\* unique constraint and the handler rolls back, else the row is stored
CommitRegistration(regs, u, e) ==
    IF UniqueViolated(regs, u, e) THEN regs ELSE regs (+) SetToBag({Row(u, e)})

CommitFlash(regs, u, e) ==
    IF UniqueViolated(regs, u, e)
    THEN "Failed to register for event"
    ELSE "Successfully registered"

\* POST /events/<e>/register, the request running alone
RegisterForEvent(u, e) ==
    /\ u \in DOMAIN users
    /\ UNCHANGED <<users, events, now, pending, session>>
    /\ IF e \notin DOMAIN events
       THEN /\ UNCHANGED registrations
            /\ last' = Resp("register_for_event", u, e, "", 404)
       ELSE IF AdmissionFlash(u, e) # ""
       THEN /\ UNCHANGED registrations
            /\ last' = Resp("register_for_event", u, e, AdmissionFlash(u, e), 302)
       ELSE /\ registrations' = CommitRegistration(registrations, u, e)
            /\ last' = Resp("register_for_event", u, e,
                            CommitFlash(registrations, u, e), 302)

\* POST /events/<e>/register on worker w, up to the last admission check: a
\* request that passes every check is held until its commit
RegisterCheck(w, u, e) ==
    /\ pending[w] = Idle
    /\ u \in DOMAIN users
    /\ UNCHANGED <<users, events, registrations, now, session>>
    /\ IF e \notin DOMAIN events
       THEN /\ UNCHANGED pending
            /\ last' = Resp("register_for_event", u, e, "", 404)
       ELSE IF AdmissionFlash(u, e) # ""
       THEN /\ UNCHANGED pending
            /\ last' = Resp("register_for_event", u, e, AdmissionFlash(u, e), 302)
       ELSE /\ pending' = [pending EXCEPT ![w] = [user_id |-> u, event_id |-> e]]
            /\ UNCHANGED last

\* the held request of worker w inserts its row and commits
RegisterCommit(w) ==
    /\ pending[w] # Idle
    /\ registrations' = CommitRegistration(registrations, pending[w].user_id,
                                           pending[w].event_id)
    /\ last' = Resp("register_for_event", pending[w].user_id, pending[w].event_id,
                    CommitFlash(registrations, pending[w].user_id, pending[w].event_id),
                    302)
    /\ pending' = [pending EXCEPT ![w] = Idle]
    /\ UNCHANGED <<users, events, now, session>>

\* a lookup that filters on the event only
FindRegistrationByEvent(regs, u, e) == {r \in BagToSet(regs) : r.event_id = e}

\* EventRegistration.query.filter_by(user_id=..., event_id=...)
FindRegistration(regs, u, e) ==
    {r \in BagToSet(regs) : r.user_id = u /\ r.event_id = e}

\* a delete that takes every row of the event with it
WithoutEveryRowOfEvent(regs, r) ==
    [x \in {y \in BagToSet(regs) : y.event_id # r.event_id} |-> regs[x]]

\* db.session.delete(registration)
WithoutOneRow(regs, r) == regs (-) SetToBag({r})

\* POST /events/<e>/unregister; .first() returns any one of the rows found
UnregisterFromEvent(u, e) ==
    /\ u \in DOMAIN users
    /\ UNCHANGED <<users, events, now, pending, session>>
    /\ IF e \notin DOMAIN events
       THEN /\ UNCHANGED registrations
            /\ last' = Resp("unregister_from_event", u, e, "", 404)
       ELSE IF FindRegistration(registrations, u, e) = {}
       THEN /\ UNCHANGED registrations
            /\ last' = Resp("unregister_from_event", u, e,
                            "You are not registered for this event.", 302)
       ELSE /\ \E r \in FindRegistration(registrations, u, e) :
                  registrations' = WithoutOneRow(registrations, r)
            /\ last' = Resp("unregister_from_event", u, e,
                            "Successfully unregistered", 302)

\* ---- routes/admin_routes.py -------------------------------------------------
\* before_request hook of the admin blueprint
\* a gate that lets every logged-in caller through
admin_required_anyone(a) == TRUE

\* a gate that tests is_organizer in place of is_admin
admin_required_organizer(a) == users[a].role \in {"admin", "organizer"}

admin_required(a) == is_admin(a)

\* an edit that drops the registrations of an event it takes out of 'published'
AdminEditEventDroppingRows(a, e, cap, st, date, dl) ==
    /\ a \in DOMAIN users
    /\ e \in DOMAIN events
    /\ admin_required(a)
    /\ AdminEventEditFormValid(cap, st, date, dl)
    /\ events' = UpdatedEvent(e, cap, st, date, dl)
    /\ registrations' = IF st = "published" THEN registrations
                        ELSE RegistrationsWithoutEvent(registrations, e)
    /\ last' = Resp("admin.edit_event", a, e, "updated successfully!", 302)
    /\ UNCHANGED <<users, now, pending, session>>

\* POST /admin/events/<e>/edit
AdminEditEvent(a, e, cap, st, date, dl) ==
    /\ a \in DOMAIN users
    /\ UNCHANGED <<users, registrations, now, pending, session>>
    /\ IF ~admin_required(a)
       THEN /\ UNCHANGED events
            /\ last' = Resp("admin.edit_event", a, e, "", 403)
       ELSE IF e \notin DOMAIN events
       THEN /\ UNCHANGED events
            /\ last' = Resp("admin.edit_event", a, e, "", 404)
       ELSE IF AdminEventEditFormValid(cap, st, date, dl)
       THEN /\ events' = UpdatedEvent(e, cap, st, date, dl)
            /\ last' = Resp("admin.edit_event", a, e, "updated successfully!", 302)
       ELSE /\ UNCHANGED events
            /\ last' = Resp("admin.edit_event", a, e, "", 200)

\* POST /admin/events/<e>/delete
AdminDeleteEvent(a, e) ==
    /\ a \in DOMAIN users
    /\ UNCHANGED <<users, now, pending, session>>
    /\ IF ~admin_required(a)
       THEN /\ UNCHANGED <<events, registrations>>
            /\ last' = Resp("admin.delete_event", a, e, "", 403)
       ELSE IF e \notin DOMAIN events
       THEN /\ UNCHANGED <<events, registrations>>
            /\ last' = Resp("admin.delete_event", a, e, "", 404)
       ELSE /\ events' = EventsWithout(e)
            /\ registrations' = RegistrationsWithoutEvent(registrations, e)
            /\ last' = Resp("admin.delete_event", a, e, "deleted successfully!", 302)

\* a delete that goes through whatever depends on the user
UserDeleteNeverRaises(t) == FALSE

\* db.session.delete(user): User.events_created and User.registrations carry no
\* delete cascade, so the flush sets creator_id / user_id of the dependent rows
\* to NULL; both columns are NOT NULL and the commit raises
UserDeleteRaises(t) ==
    \/ \E e \in DOMAIN events : events[e].creator_id = t
    \/ RowsOfUser(registrations, t) # {}

UsersWithout(t) == [x \in DOMAIN users \ {t} |-> users[x]]

\* POST /admin/users/<t>/delete
AdminDeleteUser(a, t) ==
    /\ a \in DOMAIN users
    /\ UNCHANGED <<events, registrations, now, pending, session>>
    /\ IF ~admin_required(a)
       THEN /\ UNCHANGED users
            /\ last' = Resp("admin.delete_user", a, t, "", 403)
       ELSE IF t \notin DOMAIN users
       THEN /\ UNCHANGED users
            /\ last' = Resp("admin.delete_user", a, t, "", 404)
       ELSE IF t = a
       THEN /\ UNCHANGED users
            /\ last' = Resp("admin.delete_user", a, t,
                            "You cannot delete your own account.", 302)
       ELSE IF is_admin(t)
       THEN /\ UNCHANGED users
            /\ last' = Resp("admin.delete_user", a, t,
                            "Admin accounts cannot be deleted.", 302)
       ELSE IF UserDeleteRaises(t)
       THEN /\ UNCHANGED users
            /\ last' = Resp("admin.delete_user", a, t, "Failed to delete user", 302)
       ELSE /\ users' = UsersWithout(t)
            /\ last' = Resp("admin.delete_user", a, t, "deleted successfully!", 302)

Roles == {"user", "organizer", "admin"}

\* AdminUserEditForm: validate_username / validate_email skip the account's own
\* values; role is one of the three choices
AdminUserEditFormValid(t, username, email, role) ==
    /\ username = users[t].username \/ ~(\E x \in DOMAIN users : users[x].username = username)
    /\ email = users[t].email \/ ~(\E x \in DOMAIN users : users[x].email = email)
    /\ role \in Roles

\* POST /admin/users/<t>/edit
AdminEditUser(a, t, username, email, role, is_active) ==
    /\ a \in DOMAIN users
    /\ UNCHANGED <<events, registrations, now, pending, session>>
    /\ IF ~admin_required(a)
       THEN /\ UNCHANGED users
            /\ last' = Resp("admin.edit_user", a, t, "", 403)
       ELSE IF t \notin DOMAIN users
       THEN /\ UNCHANGED users
            /\ last' = Resp("admin.edit_user", a, t, "", 404)
       ELSE IF is_admin(t) /\ t # a
       THEN /\ UNCHANGED users
            /\ last' = Resp("admin.edit_user", a, t,
                            "You cannot edit other admin accounts.", 302)
       ELSE IF AdminUserEditFormValid(t, username, email, role)
       THEN /\ users' = [users EXCEPT ![t].username = username, ![t].email = email,
                                      ![t].role = role, ![t].is_active = is_active]
            /\ last' = Resp("admin.edit_user", a, t, "updated successfully!", 302)
       ELSE /\ UNCHANGED users
            /\ last' = Resp("admin.edit_user", a, t, "", 200)

\* user.role = 'organizer', whatever the role was
Promoted(t) == [users EXCEPT ![t].role = "organizer"]

\* GET /admin/promote/<t>
PromoteToOrganizer(a, t) ==
    /\ a \in DOMAIN users
    /\ UNCHANGED <<events, registrations, now, pending, session>>
    /\ IF ~admin_required(a)
       THEN /\ UNCHANGED users
            /\ last' = Resp("admin.promote_to_organizer", a, t, "", 403)
       ELSE IF t \notin DOMAIN users
       THEN /\ UNCHANGED users
            /\ last' = Resp("admin.promote_to_organizer", a, t, "", 404)
       ELSE /\ users' = Promoted(t)
            /\ last' = Resp("admin.promote_to_organizer", a, t,
                            "has been promoted to organizer.", 302)

\* GET /admin/demote/<t>
DemoteToUser(a, t) ==
    /\ a \in DOMAIN users
    /\ UNCHANGED <<events, registrations, now, pending, session>>
    /\ IF ~admin_required(a)
       THEN /\ UNCHANGED users
            /\ last' = Resp("admin.demote_to_user", a, t, "", 403)
       ELSE IF t \notin DOMAIN users
       THEN /\ UNCHANGED users
            /\ last' = Resp("admin.demote_to_user", a, t, "", 404)
       ELSE IF is_admin(t)
       THEN /\ UNCHANGED users
            /\ last' = Resp("admin.demote_to_user", a, t, "Cannot demote admin users.", 302)
       ELSE /\ users' = [users EXCEPT ![t].role = "user"]
            /\ last' = Resp("admin.demote_to_user", a, t, "has been demoted to user.", 302)

\* ---- routes/main_routes.py, routes/auth_routes.py: the caller's own account ----
\* UpdateProfileForm: validate_username / validate_email skip the caller's own
\* values
UpdateProfileFormValid(u, username, email) ==
    /\ username = users[u].username \/ ~(\E x \in DOMAIN users : users[x].username = username)
    /\ email = users[u].email \/ ~(\E x \in DOMAIN users : users[x].email = email)

\* POST /profile/edit
EditProfile(u, username, email, first_name, last_name) ==
    /\ u \in DOMAIN users
    /\ UNCHANGED <<events, registrations, now, pending, session>>
    /\ IF UpdateProfileFormValid(u, username, email)
       THEN /\ users' = [users EXCEPT ![u].username = username, ![u].email = email,
                                      ![u].first_name = first_name,
                                      ![u].last_name = last_name]
            /\ last' = Resp("edit_profile", u, u, "Your profile has been updated!", 302)
       ELSE /\ UNCHANGED users
            /\ last' = Resp("edit_profile", u, u, "", 200)

\* ChangePasswordForm: EqualTo('new_password')
ChangePasswordFormValid(new_password, confirm_new_password) ==
    confirm_new_password = new_password

verify_password(u, password) == check_password_hash(users[u].password_hash, password)

\* POST /auth/change-password; after the commit url_for('user.profile') names no
\* endpoint, the BuildError is caught by the handler's except, the rollback finds
\* nothing to undo and the form is rendered again
ChangePassword(u, old_password, new_password, confirm_new_password) ==
    /\ u \in DOMAIN users
    /\ UNCHANGED <<events, registrations, now, pending, session>>
    /\ IF ~ChangePasswordFormValid(new_password, confirm_new_password)
       THEN /\ UNCHANGED users
            /\ last' = Resp("change_password", u, u, "", 200)
       ELSE IF ~verify_password(u, old_password)
       THEN /\ UNCHANGED users
            /\ last' = Resp("change_password", u, u, "Current password is incorrect.", 200)
       ELSE /\ users' = [users EXCEPT ![u].password_hash = generate_password_hash(new_password)]
            /\ last' = Resp("change_password", u, u, "Password change failed", 200)

\* GET /events/create
CreateEventPage(u) ==
    /\ u \in DOMAIN users
    /\ UNCHANGED <<users, events, registrations, now, pending, session>>
    /\ IF ~is_organizer(u)
       THEN last' = Resp("GET create_event", u, 0,
                         "You do not have permission to create events.", 302)
       ELSE last' = Resp("GET create_event", u, 0, "", 200)

\* GET of a page that only reads: /dashboard, /events/my-events, /profile
Pages == {"dashboard", "my_events", "registered_events", "profile"}

Page(u, op) ==
    /\ u \in DOMAIN users
    /\ UNCHANGED <<users, events, registrations, now, pending, session>>
    /\ last' = Resp(op, u, 0, "", 200)

\* ---- extensions.py, models.load_user: the login session ------------------------
\* a user loader that takes the first account for an id it does not find
load_user_or_first(id) == IF id \in DOMAIN users THEN id ELSE 1

\* User.query.get(int(user_id)): None (0) for an id that is not stored
load_user(id) == IF id \in DOMAIN users THEN id ELSE 0

\* current_user.is_authenticated for the id in the session cookie.  The loaded
\* User inherits UserMixin.is_authenticated, which is True in Flask-Login < 0.6
\* and self.is_active from 0.6 on; the repository pins no version, so `strict`
\* is a choice of the deployment.  AnonymousUser.is_authenticated is False.
is_authenticated(s, strict) ==
    /\ load_user(s) # 0
    /\ strict => users[load_user(s)].is_active

\* LoginManager.unauthorized: flash login_message, redirect to login_view
Unauthorized(op, target) ==
    /\ last' = Resp(op, 0, target, "Please log in to access this page.", 302)
    /\ UNCHANGED <<users, events, registrations, now, pending, session>>

\* The string spaces of the two columns in one: users[u].username = n stands
\* for a string without '@' when n > 0; users[u].email = n stands for the
\* address EmailString(n), which the Email() validator accepts.  The username
\* field of RegistrationForm has no format validator, so a username may be an
\* address as well: the username -n.
EmailString(n) == -n

\* the rows that satisfy (User.email == ident) | (User.username == ident)
Matches(ident) ==
    {u \in DOMAIN users : EmailString(users[u].email) = ident \/ users[u].username = ident}

\* POST /auth/login; .first() has no ORDER BY, so any matching row may be the
\* one returned
Login(ident, password) ==
    /\ UNCHANGED <<users, events, registrations, now, pending>>
    /\ \E strict \in BOOLEAN :
        IF is_authenticated(session, strict)
        THEN /\ last' = Resp("login", session, ident, "", 302)
             /\ UNCHANGED session
        ELSE IF Matches(ident) = {}
        THEN /\ last' = Resp("login", 0, ident,
                             "Invalid email/username or password. Please try again.", 200)
             /\ UNCHANGED session
        ELSE \E user \in Matches(ident) :
            IF ~verify_password(user, password)
            THEN /\ last' = Resp("login", 0, ident,
                                 "Invalid email/username or password. Please try again.", 200)
                 /\ UNCHANGED session
            ELSE IF ~users[user].is_active
            THEN /\ last' = Resp("login", 0, ident,
                                 "Your account has been deactivated. Please contact an administrator.", 302)
                 /\ UNCHANGED session
            ELSE /\ session' = user
                 /\ last' = Resp("login", user, ident, "Welcome back", 302)

\* GET /auth/logout
Logout ==
    \E strict \in BOOLEAN :
        IF ~is_authenticated(session, strict)
        THEN Unauthorized("logout", 0)
        ELSE /\ session' = 0
             /\ last' = Resp("logout", session, 0, "You have been logged out.", 302)
             /\ UNCHANGED <<users, events, registrations, now, pending>>

\* ---- requests ------------------------------------------------------------------
\* a submitted event form
Form(cap, st, date, dl) == [capacity |-> cap, status |-> st, event_date |-> date,
                            registration_deadline |-> dl]

Forms == {Form(cap, st, date, dl) : cap \in CapInputs, st \in Statuses,
                                    date \in DateInputs, dl \in DeadlineInputs}

\* forms of events that are published without a deadline, and the empty capacity
OpenForms == {f \in Forms : /\ f.status = "published"
                            /\ f.registration_deadline = NoDeadline
                            /\ f.event_date = MaxTime + 1
                            /\ f.capacity >= 0}

\* a handler that answers 403 or 404 never reads the form: one form stands for all
FormsRead(F, read) == IF read THEN F ELSE {CHOOSE f \in F : TRUE}

\* at most n events are kept at a time
CreateEventRequest(F, n) ==
    /\ NextId(DOMAIN events) <= n
    /\ \E u \in UserIds : \E f \in FormsRead(F, u \in DOMAIN users /\ is_organizer(u)) :
          CreateEvent(u, f.capacity, f.status, f.event_date, f.registration_deadline)

EditEventRequest(F) ==
    \E u \in UserIds, e \in EventIds :
        \E f \in FormsRead(F, u \in DOMAIN users /\ e \in DOMAIN events /\ MayMutateEvent(u, e)) :
            EditEvent(u, e, f.capacity, f.status, f.event_date, f.registration_deadline)

AdminEditEventRequest(F) ==
    \E a \in UserIds, e \in EventIds :
        \E f \in FormsRead(F, a \in DOMAIN users /\ admin_required(a) /\ e \in DOMAIN events) :
            AdminEditEvent(a, e, f.capacity, f.status, f.event_date, f.registration_deadline)

DeleteEventRequest == \E u \in UserIds, e \in EventIds : DeleteEvent(u, e)

RegisterRequest == \E u \in UserIds, e \in EventIds : RegisterForEvent(u, e)

UnregisterRequest == \E u \in UserIds, e \in EventIds : UnregisterFromEvent(u, e)

AdminDeleteEventRequest == \E a \in UserIds, e \in EventIds : AdminDeleteEvent(a, e)

AdminDeleteUserRequest == \E a \in UserIds, t \in UserIds : AdminDeleteUser(a, t)

\* at most MaxUsers accounts are kept at a time
SignUpRequest ==
    /\ NextId(DOMAIN users) <= MaxUsers
    /\ \E n \in Names : SignUp(n, n, n, n, n)

\* what a client submits in a field that holds cur: cur again or a value of N
Offered(cur, N) == {cur} \cup N

\* the admin form offers every role; a handler that answers before validation
\* reads no field
AdminEditUserRequest(N, A) ==
    \E a \in UserIds, t \in UserIds :
        IF /\ a \in DOMAIN users
           /\ t \in DOMAIN users
           /\ admin_required(a)
           /\ ~(is_admin(t) /\ t # a)
        THEN \E username \in Offered(users[t].username, N),
                email \in Offered(users[t].email, N),
                role \in Roles, is_active \in Offered(users[t].is_active, A) :
                    AdminEditUser(a, t, username, email, role, is_active)
        ELSE AdminEditUser(a, t, 0, 0, "user", TRUE)

PromoteRequest == \E a \in UserIds, t \in UserIds : PromoteToOrganizer(a, t)

DemoteRequest == \E a \in UserIds, t \in UserIds : DemoteToUser(a, t)

EditProfileRequest(N, P) ==
    \E u \in DOMAIN users :
        \E username \in Offered(users[u].username, N),
           email \in Offered(users[u].email, N),
           first_name \in Offered(users[u].first_name, P),
           last_name \in Offered(users[u].last_name, P) :
               EditProfile(u, username, email, first_name, last_name)

ChangePasswordRequest(P) ==
    \E u \in UserIds : \E old_password \in P, new_password \in P, confirm_new_password \in P :
        ChangePassword(u, old_password, new_password, confirm_new_password)

CreateEventPageRequest == \E u \in UserIds : CreateEventPage(u)

\* ---- Spec: one event at a time, taken through every form by its creator and by
\* the admin, with the seeded users registering and unregistering
Next ==
    \/ Tick
    \/ CreateEventRequest(Forms, 1)
    \/ EditEventRequest(Forms)
    \/ DeleteEventRequest
    \/ RegisterRequest
    \/ UnregisterRequest
    \/ AdminEditEventRequest(Forms)
    \/ AdminDeleteEventRequest

Spec == Init /\ [][Next]_vars

\* ---- SpecUsers: accounts come and go (sign-up, deletion by an admin) around
\* up to MaxEvents open events
NextUsers ==
    \/ SignUpRequest
    \/ AdminDeleteUserRequest
    \/ CreateEventRequest(OpenForms, MaxEvents)
    \/ DeleteEventRequest
    \/ AdminDeleteEventRequest
    \/ RegisterRequest
    \/ UnregisterRequest

SpecUsers == Init /\ [][NextUsers]_vars

\* ---- SpecTwo: up to MaxEvents published events, with and without a deadline,
\* and the seeded users registering and unregistering while time passes
PublishedForms == {f \in Forms : /\ f.status = "published"
                                 /\ f.event_date = MaxTime + 1
                                 /\ f.capacity >= 0}

NextTwo ==
    \/ Tick
    \/ CreateEventRequest(PublishedForms, MaxEvents)
    \/ RegisterRequest
    \/ UnregisterRequest

SpecTwo == Init /\ [][NextTwo]_vars

\* ---- SpecAdmin: the admin routes called by every account while roles change,
\* around one open event
NextAdmin ==
    \/ AdminEditUserRequest({}, {})
    \/ PromoteRequest
    \/ DemoteRequest
    \/ AdminDeleteUserRequest
    \/ AdminEditEventRequest(OpenForms)
    \/ AdminDeleteEventRequest
    \/ CreateEventPageRequest
    \/ CreateEventRequest(OpenForms, 1)
    \/ RegisterRequest

SpecAdmin == Init /\ [][NextAdmin]_vars

\* ---- SpecAccounts: the seeded accounts edit their own profile and password
\* while admins edit, promote, demote and delete accounts; one user name and
\* e-mail address is free to take, and two passwords are in use
SpareNames == {MaxUsers}

SomePasswords == {1, 2}

NextAccounts ==
    \/ AdminEditUserRequest(SpareNames, {})
    \/ PromoteRequest
    \/ DemoteRequest
    \/ AdminDeleteUserRequest
    \/ EditProfileRequest(SpareNames, {})
    \/ ChangePasswordRequest(SomePasswords)

SpecAccounts == Init /\ [][NextAccounts]_vars

\* ---- SpecRace: register requests of several workers interleave between their
\* admission checks and their commits, on open events
RegisterCheckRequest == \E w \in Workers, u \in UserIds, e \in EventIds : RegisterCheck(w, u, e)

RegisterCommitRequest == \E w \in Workers : RegisterCommit(w)

NextRace ==
    \/ CreateEventRequest(OpenForms, MaxEvents)
    \/ RegisterCheckRequest
    \/ RegisterCommitRequest
    \/ UnregisterRequest

SpecRace == Init /\ [][NextRace]_vars

\* ==== properties ===================================================================
\* the four rejection reasons of a register request, and its success
ReasonClosed == "Registration for this event is closed."
ReasonFull == "This event is fully booked."
ReasonDuplicate == "You are already registered for this event."
ReasonSelf == "You cannot register for your own event."
Registered == "Successfully registered"
Rejections == {ReasonClosed, ReasonFull, ReasonDuplicate, ReasonSelf}

\* the conditions of the admission check, stated on the store
WindowOpen(e) ==
    /\ events[e].status = "published"
    /\ \/ events[e].registration_deadline = NoDeadline
       \/ now < events[e].registration_deadline

RowCount(regs, e) == BagCount(regs, RowsOfEvent(regs, e))

EventFull(e) == RowCount(registrations, e) >= events[e].capacity

Holds(regs, u, e) == CopiesIn(Row(u, e), regs) >= 1

IsCreator(u, e) == events[e].creator_id = u

\* this step is a register request that found its event
RegisterStep == last'.op = "register_for_event" /\ last'.code # 404

PairCount(regs, u, e) ==
    BagCount(regs, {r \in BagToSet(regs) : r.user_id = u /\ r.event_id = e})

\* C2: at most one registration row for each (user, event) pair, also when
\* register requests for one pair pass the admission checks before either commits
C2_AtMostOneRowPerPair ==
    \A u \in UserIds, e \in EventIds : PairCount(registrations, u, e) <= 1

\* two requests for one pair passed the checks; the first committed its row, the
\* second was refused by the store
C2_Witness ==
    /\ last.op = "register_for_event"
    /\ last.flash = "Failed to register for event"
    /\ PairCount(registrations, last.caller, last.target) = 1
\* C3 as amended: a register request by a user who already holds a registration
\* for the event is rejected and leaves the rows unchanged; the reason is
\* 'duplicate' when the event is open and not full, else the earlier failing
\* reason ('registration closed' or 'event full')
C3_SecondRegisterRejected ==
    [][(RegisterStep /\ Holds(registrations, last'.caller, last'.target)) =>
        LET e == last'.target
            f == last'.flash
        IN /\ registrations' = registrations
           /\ f \in {ReasonClosed, ReasonFull, ReasonDuplicate}
           /\ (WindowOpen(e) /\ ~EventFull(e)) => f = ReasonDuplicate
           /\ ~WindowOpen(e) => f = ReasonClosed
           /\ (WindowOpen(e) /\ EventFull(e)) => f = ReasonFull]_vars

\* a second register request was answered 'duplicate'
C3_Witness ==
    /\ last.op = "register_for_event"
    /\ last.flash = ReasonDuplicate
    /\ last.target \in DOMAIN events
    /\ Holds(registrations, last.caller, last.target)

\* C3 as stated: the second register request always fails with 'duplicate'
C3_Original ==
    [][(RegisterStep /\ Holds(registrations, last'.caller, last'.target)) =>
        (last'.flash = ReasonDuplicate /\ registrations' = registrations)]_vars

\* no registration row belongs to the creator of its event
NoCreatorRow ==
    \A r \in BagToSet(registrations) :
        r.event_id \in DOMAIN events => events[r.event_id].creator_id # r.user_id

OneRowAdded(regs1, regs2, row) ==
    \A r \in BagToSet(regs1) \cup BagToSet(regs2) \cup {row} :
        CopiesIn(r, regs2) = CopiesIn(r, regs1) + (IF r = row THEN 1 ELSE 0)

\* C5: a register request by a non-creator without a registration, on a
\* published event that is not full and whose deadline is absent or ahead, adds
\* exactly the row (user, event, 'registered'); the event's count grows by one
\* and no other row changes
C5_RegisterSucceeds ==
    [][(/\ RegisterStep
        /\ ~IsCreator(last'.caller, last'.target)
        /\ ~Holds(registrations, last'.caller, last'.target)
        /\ WindowOpen(last'.target)
        /\ ~EventFull(last'.target)) =>
        LET u == last'.caller
            e == last'.target
        IN /\ last'.flash = Registered
           /\ OneRowAdded(registrations, registrations',
                          [user_id |-> u, event_id |-> e, status |-> "registered"])
           /\ RowCount(registrations', e) = RowCount(registrations, e) + 1]_vars

\* a user was registered for an event whose deadline is still ahead while another
\* event has registrations of its own
C5_Witness ==
    /\ last.op = "register_for_event"
    /\ last.flash = Registered
    /\ Holds(registrations, last.caller, last.target)
    /\ events[last.target].registration_deadline # NoDeadline
    /\ now < events[last.target].registration_deadline
    /\ \E r \in BagToSet(registrations) : r.event_id # last.target

\* C6: on an open event, register requests by distinct non-creator users succeed
\* one after another while fewer rows than the capacity exist, each adding one
\* row; with as many rows as the capacity the next one is rejected with
\* 'event full' and adds no row
C6_FillsToCapacity ==
    [][(/\ RegisterStep
        /\ WindowOpen(last'.target)
        /\ ~IsCreator(last'.caller, last'.target)
        /\ ~Holds(registrations, last'.caller, last'.target)) =>
        LET u == last'.caller
            e == last'.target
        IN /\ RowCount(registrations, e) < events[e].capacity =>
                /\ last'.flash = Registered
                /\ Holds(registrations', u, e)
                /\ RowCount(registrations', e) = RowCount(registrations, e) + 1
           /\ RowCount(registrations, e) >= events[e].capacity =>
                /\ last'.flash = ReasonFull
                /\ registrations' = registrations]_vars

\* an event of capacity 2 holds the rows of two users and a third user, not its
\* creator, was answered 'event full'
C6_Witness ==
    /\ last.op = "register_for_event"
    /\ last.flash = ReasonFull
    /\ last.target \in DOMAIN events
    /\ events[last.target].capacity = 2
    /\ Cardinality(RowsOfEvent(registrations, last.target)) = 2
    /\ ~IsCreator(last.caller, last.target)
    /\ ~Holds(registrations, last.caller, last.target)

\* C7: on an event whose status is not 'published' every register request is
\* rejected with 'registration closed' and creates no row
C7_UnpublishedIsClosed ==
    [][(RegisterStep /\ events[last'.target].status # "published") =>
        (last'.flash = ReasonClosed /\ registrations' = registrations)]_vars

\* a user who is neither creator nor registered was answered 'registration
\* closed' on a draft event with free spots and no deadline
C7_Witness ==
    /\ last.op = "register_for_event"
    /\ last.flash = ReasonClosed
    /\ last.target \in DOMAIN events
    /\ events[last.target].status = "draft"
    /\ events[last.target].registration_deadline = NoDeadline
    /\ ~EventFull(last.target)
    /\ ~IsCreator(last.caller, last.target)
    /\ ~Holds(registrations, last.caller, last.target)

\* this step is an unregister request that found its event
UnregisterStep == last'.op = "unregister_from_event" /\ last'.code # 404

\* C8: an unregister request by a user without a registration for the event
\* completes with the 'not registered' message and changes no registration row
C8_UnregisterWithoutRowIsNoOp ==
    [][(UnregisterStep /\ ~Holds(registrations, last'.caller, last'.target)) =>
        /\ last'.flash = "You are not registered for this event."
        /\ last'.code = 302
        /\ registrations' = registrations
        /\ \A e \in DOMAIN events :
              RowCount(registrations', e) = RowCount(registrations, e)]_vars

\* a user without a registration was answered 'not registered' on an event that
\* has the registration of another user
C8_Witness ==
    /\ last.op = "unregister_from_event"
    /\ last.flash = "You are not registered for this event."
    /\ ~Holds(registrations, last.caller, last.target)
    /\ RowsOfEvent(registrations, last.target) # {}

\* this step deleted the event last'.target, through either route
DeleteEventStep ==
    \/ last'.op = "delete_event" /\ last'.flash = "Event deleted successfully!"
    \/ last'.op = "admin.delete_event" /\ last'.flash = "deleted successfully!"

\* C9: after a delete of event E no row of E remains and the rows of every other
\* event are unchanged
C9_DeleteEventCascades ==
    [][DeleteEventStep =>
        /\ last'.target \notin DOMAIN events'
        /\ RowsOfEvent(registrations', last'.target) = {}
        /\ \A r \in BagToSet(registrations) \cup BagToSet(registrations') :
              r.event_id # last'.target =>
                  CopiesIn(r, registrations') = CopiesIn(r, registrations)]_vars

\* an event was deleted, none of its rows is left, and the other event still has
\* its registrations
C9_Witness ==
    /\ last.op \in {"delete_event", "admin.delete_event"}
    /\ last.code = 302
    /\ last.flash # ""
    /\ last.target \notin DOMAIN events
    /\ RowsOfEvent(registrations, last.target) = {}
    /\ registrations # EmptyBag

\* this step is a delete-user request by an admin for another, non-admin account
DeleteUserStep ==
    /\ last'.op = "admin.delete_user"
    /\ last'.caller \in DOMAIN users
    /\ last'.target \in DOMAIN users
    /\ users[last'.caller].role = "admin"
    /\ users[last'.target].role # "admin"
    /\ last'.target # last'.caller

\* C10: deleting a non-admin user other than the caller succeeds and removes the
\* user, the user's registrations and the events the user created
C10_DeleteUserCascades ==
    [][DeleteUserStep =>
        /\ last'.target \notin DOMAIN users'
        /\ RowsOfUser(registrations', last'.target) = {}
        /\ \A e \in DOMAIN events' : events'[e].creator_id # last'.target]_vars
RegisterFailed == "Failed to register for event"

C12_AvailableSpots ==
    \A e \in DOMAIN events :
        LET C == events[e].capacity
            R == RowCount(registrations, e)
        IN /\ available_spots(e) = (IF C - R > 0 THEN C - R ELSE 0)
           /\ available_spots(e) >= 0
           /\ is_full(e) <=> (available_spots(e) = 0)

\* an event with a positive capacity holds more rows than its capacity
C12_Witness ==
    \E e \in DOMAIN events :
        /\ events[e].capacity >= 1
        /\ RowCount(registrations, e) > events[e].capacity
        /\ available_spots(e) = 0
        /\ is_full(e)

\* C13: is_registration_open holds exactly when the status is 'published' and
\* the event has no deadline or the current time is strictly before the deadline
C13_RegistrationOpen ==
    \A e \in DOMAIN events :
        is_registration_open(e) <=>
            /\ events[e].status = "published"
            /\ \/ events[e].registration_deadline = NoDeadline
               \/ now < events[e].registration_deadline

\* the clock stands at the deadline of a published event and registration is
\* closed
C13_Witness ==
    \E e \in DOMAIN events :
        /\ events[e].status = "published"
        /\ events[e].registration_deadline = now
        /\ ~is_registration_open(e)

\* this step is an edit or delete request of the event routes that found its event
MutateEventStep ==
    /\ last'.op \in {"edit_event", "delete_event"}
    /\ last'.target \in DOMAIN events

\* C14: an edit or delete request through the event routes by a caller who is
\* neither the creator nor an admin is answered 403 and leaves the event and the
\* registrations unchanged; the creator and an admin are not answered 403
C14_OnlyCreatorOrAdminMutates ==
    [][MutateEventStep =>
        LET u == last'.caller
            e == last'.target
        IN IF IsCreator(u, e) \/ users[u].role = "admin"
           THEN last'.code # 403
           ELSE /\ last'.code = 403
                /\ events' = events
                /\ registrations' = registrations]_vars

\* an organizer who is not the creator was answered 403 on an event that has
\* registrations
C14_Witness ==
    /\ last.op \in {"edit_event", "delete_event"}
    /\ last.code = 403
    /\ last.target \in DOMAIN events
    /\ ~IsCreator(last.caller, last.target)
    /\ users[last.caller].role = "organizer"
    /\ RowsOfEvent(registrations, last.target) # {}
AdminOps == {"admin.edit_user", "admin.delete_user", "admin.promote_to_organizer",
             "admin.demote_to_user", "admin.edit_event", "admin.delete_event"}

\* this step is a request of account c, stored with role r before the request
RequestOf(c, r) ==
    /\ last'.caller = c
    /\ c \in DOMAIN users
    /\ users[c].role = r

\* C15: no request made by an admin changes a field of, or deletes, a different
\* account whose role is 'admin'; this covers edit user, delete user, promote to
\* organizer and demote to user
C15_AdminsUntouchedByOtherAdmins ==
    [][\A a \in DOMAIN users, b \in DOMAIN users :
          (/\ RequestOf(a, "admin")
           /\ last'.op \in AdminOps
           /\ b # a
           /\ users[b].role = "admin") =>
              /\ b \in DOMAIN users'
              /\ users'[b] = users[b]]_vars

\* C16 as amended: a request from a caller who is not an admin changes no record
\* of another account and never a role or an active flag; the caller's own
\* username, e-mail address and names change through the profile edit only and
\* the caller's own password hash through the password change only
C16_NonAdminEditsOwnProfileOnly ==
    [][\A c \in DOMAIN users :
          (RequestOf(c, "user") \/ RequestOf(c, "organizer")) =>
              /\ DOMAIN users' = DOMAIN users
              /\ \A x \in DOMAIN users \ {c} : users'[x] = users[x]
              /\ users'[c].role = users[c].role
              /\ users'[c].is_active = users[c].is_active
              /\ users'[c].password_hash # users[c].password_hash
                    => last'.op = "change_password"
              /\ (\/ users'[c].username # users[c].username
                  \/ users'[c].email # users[c].email
                  \/ users'[c].first_name # users[c].first_name
                  \/ users'[c].last_name # users[c].last_name)
                    => last'.op = "edit_profile"]_vars

\* an account that is not an admin has taken a new username through its own
\* profile edit
C16_Witness ==
    /\ last.op = "edit_profile"
    /\ last.flash = "Your profile has been updated!"
    /\ last.caller \in DOMAIN users
    /\ users[last.caller].role # "admin"
    /\ users[last.caller].username \in SpareNames

\* C16 as stated: no request from a caller who is not an admin changes any
\* stored field of any user record
C16_Original ==
    [][\A c \in DOMAIN users :
          (RequestOf(c, "user") \/ RequestOf(c, "organizer")) =>
              /\ DOMAIN users' = DOMAIN users
              /\ \A x \in DOMAIN users : users'[x] = users[x]]_vars

C18_PositiveCapacity == \A e \in DOMAIN events : events[e].capacity >= 1

\* admin implies organizer, and role 'user' is neither
RoleChecks ==
    \A u \in DOMAIN users :
        /\ is_admin(u) => is_organizer(u)
        /\ users[u].role = "user" => (~is_admin(u) /\ ~is_organizer(u))
        /\ users[u].role = "organizer" => (is_organizer(u) /\ ~is_admin(u))

\* C19: a create-event request stores an event only for a caller with role
\* 'organizer' or 'admin', and the stored event has the caller as its creator;
\* the request of a caller with role 'user' stores nothing
C19_OnlyOrganizersCreate ==
    /\ []RoleChecks
    /\ [][last'.op = "create_event" =>
            LET u == last'.caller
            IN /\ users[u].role = "user" =>
                    /\ events' = events
                    /\ last'.flash = "You do not have permission to create events."
               /\ events' # events =>
                    /\ users[u].role \in {"organizer", "admin"}
                    /\ last'.target \notin DOMAIN events
                    /\ DOMAIN events' = DOMAIN events \cup {last'.target}
                    /\ events'[last'.target].creator_id = u
                    /\ \A x \in DOMAIN events : events'[x] = events[x]]_vars

\* an account with role 'user' asked to create an event, was refused, and no
\* event is stored
C19_Witness ==
    /\ last.op = "create_event"
    /\ last.flash = "You do not have permission to create events."
    /\ last.caller \in DOMAIN users
    /\ users[last.caller].role = "user"
    /\ DOMAIN events = {}

\* C20: the create-event page is answered with status 200 for every logged-in
\* caller, role 'user' included
C20_CreatePageLoads ==
    [][last'.op = "GET create_event" => last'.code = 200]_vars
\* ---- SpecSession: one client logs in and out as any seeded account and sends
\* every request of the login-required routes through its session
LoginIdents == Names \cup {EmailString(n) : n \in Names}

\* the login form filled with an identifier of I and a password of P
LoginRequest(I, P) == \E ident \in I, password \in P : Login(ident, password)

\* register() answers a client that is logged in with a redirect to the home page
ClientSignUp ==
    /\ NextId(DOMAIN users) <= MaxUsers
    /\ \E strict \in BOOLEAN :
        IF is_authenticated(session, strict)
        THEN /\ last' = Resp("register", session, 0, "", 302)
             /\ UNCHANGED <<users, events, registrations, now, pending, session>>
        ELSE \E n \in Names :
                \E username \in {n} \cup {EmailString(m) : m \in Names} :
                    SignUp(username, n, n, n, n)

\* @login_required stands in front of each of the handlers below: a request
\* that current_user.is_authenticated does not let through is answered by
\* LoginManager.unauthorized
ClientPage ==
    \E op \in Pages, strict \in BOOLEAN :
        IF is_authenticated(session, strict)
        THEN Page(load_user(session), op)
        ELSE Unauthorized(op, 0)

ClientCreateEvent(F) ==
    /\ NextId(DOMAIN events) <= 1
    /\ \E f \in F, strict \in BOOLEAN :
          IF is_authenticated(session, strict)
          THEN CreateEvent(load_user(session), f.capacity, f.status, f.event_date,
                           f.registration_deadline)
          ELSE Unauthorized("create_event", 0)

ClientEditEvent ==
    \E e \in EventIds, f \in OpenForms, strict \in BOOLEAN :
        IF is_authenticated(session, strict)
        THEN EditEvent(load_user(session), e, f.capacity, f.status, f.event_date,
                       f.registration_deadline)
        ELSE Unauthorized("edit_event", e)

ClientDeleteEvent ==
    \E e \in EventIds, strict \in BOOLEAN :
        IF is_authenticated(session, strict)
        THEN DeleteEvent(load_user(session), e)
        ELSE Unauthorized("delete_event", e)

ClientRegister ==
    \E e \in EventIds, strict \in BOOLEAN :
        IF is_authenticated(session, strict)
        THEN RegisterForEvent(load_user(session), e)
        ELSE Unauthorized("register_for_event", e)

ClientUnregister ==
    \E e \in EventIds, strict \in BOOLEAN :
        IF is_authenticated(session, strict)
        THEN UnregisterFromEvent(load_user(session), e)
        ELSE Unauthorized("unregister_from_event", e)

\* the profile form resubmitted with another first name
ClientEditProfile ==
    \E first_name \in SpareNames, strict \in BOOLEAN :
        IF is_authenticated(session, strict)
        THEN LET u == load_user(session)
             IN EditProfile(u, users[u].username, users[u].email,
                            first_name, users[u].last_name)
        ELSE Unauthorized("edit_profile", 0)

\* the admin's user form resubmitted with the 'Active Account' box toggled
ClientSetActive ==
    \E t \in UserIds, strict \in BOOLEAN :
        IF ~is_authenticated(session, strict)
        THEN Unauthorized("admin.edit_user", t)
        ELSE IF t \in DOMAIN users
        THEN AdminEditUser(load_user(session), t, users[t].username, users[t].email,
                           users[t].role, ~users[t].is_active)
        ELSE AdminEditUser(load_user(session), t, 0, 0, "user", TRUE)

NextSession ==
    \/ LoginRequest(Names, Names)
    \/ Logout
    \/ ClientPage
    \/ ClientCreateEvent(OpenForms)
    \/ ClientEditEvent
    \/ ClientDeleteEvent
    \/ ClientRegister
    \/ ClientUnregister
    \/ ClientEditProfile

SpecSession == Init /\ [][NextSession]_vars

\* ---- SpecLogin: one client logs in and out by user name or e-mail address
\* while an admin deactivates and reactivates accounts and one more account
\* signs up, possibly under a user name that is an e-mail address
NextLogin ==
    \/ LoginRequest(LoginIdents, Names)
    \/ Logout
    \/ ClientSignUp
    \/ ClientSetActive

SpecLogin == Init /\ [][NextLogin]_vars

\* ---- SpecNames: accounts sign up, rename themselves and are renamed by an
\* admin; the user names and addresses submitted are one that a seeded account
\* holds and one that is free at first
TradedNames == {MaxUsers - 1, MaxUsers}

SignUpAnyRequest ==
    /\ NextId(DOMAIN users) <= MaxUsers
    /\ \E username \in TradedNames, email \in TradedNames :
          SignUp(username, email, username, username, username)

\* the admin's user form resubmitted with another user name or e-mail address
AdminRenameRequest ==
    \E a \in UserIds, t \in UserIds :
        IF /\ a \in DOMAIN users
           /\ t \in DOMAIN users
           /\ admin_required(a)
           /\ ~(is_admin(t) /\ t # a)
        THEN \E username \in TradedNames, email \in TradedNames :
                AdminEditUser(a, t, username, email, users[t].role, users[t].is_active)
        ELSE AdminEditUser(a, t, 0, 0, "user", TRUE)

NextNames ==
    \/ SignUpAnyRequest
    \/ EditProfileRequest(TradedNames, {})
    \/ AdminRenameRequest

SpecNames == Init /\ [][NextNames]_vars

\* ---- SpecRoles: admins edit the role and the active flag of the two latest
\* accounts, promote and demote, while an account signs up and a client logs in
\* as one of the two, edits its profile, changes its password, creates an event
\* and registers
ModeratedUsers == {MaxUsers - 1, MaxUsers}

\* the admin's user form resubmitted with any role and 'Active Account' box
ModerateRequest ==
    \E a \in UserIds, t \in ModeratedUsers :
        IF /\ a \in DOMAIN users
           /\ t \in DOMAIN users
           /\ admin_required(a)
           /\ ~(is_admin(t) /\ t # a)
        THEN \E role \in Roles, is_active \in BOOLEAN :
                AdminEditUser(a, t, users[t].username, users[t].email, role, is_active)
        ELSE AdminEditUser(a, t, 0, 0, "user", TRUE)

\* the password form filled with passwords of P
ClientChangePassword(P) ==
    \E old_password \in P, new_password \in P, strict \in BOOLEAN :
        IF is_authenticated(session, strict)
        THEN ChangePassword(load_user(session), old_password, new_password, new_password)
        ELSE Unauthorized("change_password", 0)

PromoteModerated == \E a \in UserIds, t \in ModeratedUsers : PromoteToOrganizer(a, t)

DemoteModerated == \E a \in UserIds, t \in ModeratedUsers : DemoteToUser(a, t)

\* the form of a published event of capacity MaxCap without a deadline
FullHouseForms == {f \in OpenForms : f.capacity = MaxCap}

NextRoles ==
    \/ ModerateRequest
    \/ PromoteModerated
    \/ DemoteModerated
    \/ SignUpRequest
    \/ LoginRequest(ModeratedUsers, ModeratedUsers)
    \/ Logout
    \/ ClientEditProfile
    \/ ClientChangePassword(SpareNames)
    \/ ClientCreateEvent(FullHouseForms)
    \/ ClientRegister

SpecRoles == Init /\ [][NextRoles]_vars

\* this step is an unregister request of a user who holds a row for the event
UnregisterOfHolder ==
    /\ UnregisterStep
    /\ Holds(registrations, last'.caller, last'.target)

\* the rows of regs2 are those of regs1 less one copy of row
OneRowRemoved(regs1, regs2, row) ==
    \A r \in BagToSet(regs1) \cup BagToSet(regs2) \cup {row} :
        CopiesIn(r, regs2) = CopiesIn(r, regs1) - (IF r = row THEN 1 ELSE 0)

\* C24: a user who holds a registration can always unregister, whatever the
\* event's status, deadline or fullness: exactly that user's row for that event
\* is removed, the event's count drops by one and no other row changes
C24_HolderCanAlwaysUnregister ==
    [][UnregisterOfHolder =>
        LET u == last'.caller
            e == last'.target
        IN /\ last'.flash = "Successfully unregistered"
           /\ last'.code = 302
           /\ OneRowRemoved(registrations, registrations', Row(u, e))
           /\ RowCount(registrations', e) = RowCount(registrations, e) - 1
           /\ ~Holds(registrations', u, e)]_vars

\* a user unregistered from a cancelled event whose deadline has passed and
\* which still holds more rows than its capacity
C24_Witness ==
    /\ last.op = "unregister_from_event"
    /\ last.flash = "Successfully unregistered"
    /\ last.target \in DOMAIN events
    /\ events[last.target].status = "cancelled"
    /\ events[last.target].registration_deadline # NoDeadline
    /\ events[last.target].registration_deadline <= now
    /\ RowCount(registrations, last.target) >= events[last.target].capacity
    /\ RowCount(registrations, last.target) >= 1

\* C25: every stored event that has a registration deadline has it strictly
\* before its event date
C25_DeadlineBeforeEventDate ==
    \A e \in DOMAIN events :
        events[e].registration_deadline # NoDeadline =>
            events[e].registration_deadline < events[e].event_date

EditOps == {"edit_event", "admin.edit_event"}

\* C26: by requests executed one at a time, the number of rows of each event
\* with a positive capacity is at most that capacity; in particular no edit
\* leaves an event with a capacity below its count of rows
C26_CountWithinCapacity ==
    \A e \in DOMAIN events :
        events[e].capacity >= 1 => RowCount(registrations, e) <= events[e].capacity

\* C27: register requests of distinct users that have all passed the fullness
\* check before any of them commits never take the count of an event above its
\* capacity
C27_NoOverbookingUnderRace ==
    [][(RegisterStep /\ last'.flash = Registered) =>
          RowCount(registrations', last'.target) <= events'[last'.target].capacity]_vars

\* C28: an edit of an event, by its creator or by an admin, changes no
\* registration row whatever is edited, and the registrants can still unregister
C28_EditKeepsRegistrations ==
    [][/\ last'.op \in EditOps => registrations' = registrations
       /\ (UnregisterOfHolder /\ ~WindowOpen(last'.target)) =>
             /\ last'.flash = "Successfully unregistered"
             /\ ~Holds(registrations', last'.caller, last'.target)]_vars

\* an edit has just left an event out of 'published', or with its deadline
\* passed, and with a capacity below its count of rows; the rows are kept
C28_Witness ==
    /\ last.op \in EditOps
    /\ last.code = 302
    /\ last.target \in DOMAIN events
    /\ ~WindowOpen(last.target)
    /\ RowCount(registrations, last.target) >= 2
    /\ events[last.target].capacity < RowCount(registrations, last.target)

\* every row references a stored user and a stored event, and every event a
\* stored creator
ReferentialIntegrity ==
    /\ \A r \in BagToSet(registrations) :
          r.user_id \in DOMAIN users /\ r.event_id \in DOMAIN events
    /\ \A e \in DOMAIN events : events[e].creator_id \in DOMAIN users

\* C29: referential integrity holds in every reachable state, and a register or
\* unregister request for an event id that is not stored is answered 404 and
\* changes nothing
C29_ReferentialIntegrity ==
    /\ []ReferentialIntegrity
    /\ [][(/\ last'.op \in {"register_for_event", "unregister_from_event"}
           /\ last'.target \notin DOMAIN events) =>
              /\ last'.code = 404
              /\ users' = users
              /\ events' = events
              /\ registrations' = registrations]_vars

\* an unregister request for an event deleted together with its rows was
\* answered 404 while rows of another event are stored
C29_Witness ==
    /\ last.op = "unregister_from_event"
    /\ last.code = 404
    /\ last.target \notin DOMAIN events
    /\ registrations # EmptyBag
    /\ last.target \in 1..MaxEvents
    /\ DOMAIN events # {}
\* the routes behind @login_required that the client of `session` requests
LoginRequiredOps ==
    Pages \cup {"create_event", "edit_event", "delete_event", "register_for_event",
                "unregister_from_event", "edit_profile", "logout"}

\* C21: a request of a login-required route from a session with no logged-in
\* user is answered by the redirect to the login page; the handler does not run
\* and the store is unchanged
C21_AnonymousIsRedirected ==
    [][(session \notin DOMAIN users /\ last'.op \in LoginRequiredOps) =>
          /\ last' = Resp(last'.op, 0, last'.target,
                          "Please log in to access this page.", 302)
          /\ users' = users
          /\ events' = events
          /\ registrations' = registrations
          /\ session' = session]_vars

\* a client that registered and logged out asked to unregister and was sent to
\* the login page; the row is still there
C21_Witness ==
    /\ session = 0
    /\ last.op = "unregister_from_event"
    /\ last.flash = "Please log in to access this page."
    /\ last.code = 302
    /\ RowCount(registrations, last.target) >= 1

\* an active account matches the identifier by e-mail address or user name and
\* the password verifies against it
CredentialsMatch(ident, password) ==
    \E u \in DOMAIN users :
        /\ EmailString(users[u].email) = ident \/ users[u].username = ident
        /\ check_password_hash(users[u].password_hash, password)
        /\ users[u].is_active

\* C22: a login from a session that is not logged in authenticates the session
\* exactly when an active account matches the identifier by e-mail address or
\* user name and the password verifies; a logout leaves the session
\* unauthenticated, and it stays so until the next successful login
C22_LoginExactlyWhenCredentialsMatch ==
    [][/\ \A ident \in LoginIdents, password \in Names :
             (session = 0 /\ Login(ident, password)) =>
                 ((session' # 0) <=> CredentialsMatch(ident, password))
       /\ last'.op = "logout" /\ last'.code = 302 /\ last'.caller # 0 => session' = 0
       /\ (session = 0 /\ session' # 0) =>
             /\ last'.op = "login"
             /\ last'.flash = "Welcome back"
             /\ last'.caller = session']_vars
\* no two accounts of a store share a user name or an e-mail address
UniqueNames(us) ==
    \A u \in DOMAIN us, v \in DOMAIN us :
        u # v => us[u].username # us[v].username /\ us[u].email # us[v].email

\* another account than u holds the user name or the e-mail address
HeldByOther(u, username, email) ==
    \E x \in DOMAIN users \ {u} : users[x].username = username \/ users[x].email = email

\* C23: user names and e-mail addresses are unique among the accounts in every
\* reachable state; a sign-up with a user name or an address that is taken
\* creates no account, and a profile edit or an admin's user edit that would
\* take a user name or an address held by another account changes nothing
C23_UniqueUsernamesAndEmails ==
    /\ []UniqueNames(users)
    /\ [][/\ \A username \in TradedNames, email \in TradedNames :
                (/\ HeldByOther(0, username, email)
                 /\ SignUp(username, email, username, username, username)) =>
                    (users' = users /\ last'.code = 200)
          /\ \A u \in DOMAIN users, username \in TradedNames, email \in TradedNames :
                (/\ HeldByOther(u, username, email)
                 /\ EditProfile(u, username, email, users[u].first_name,
                                users[u].last_name)) =>
                    (users' = users /\ last'.code = 200)
          /\ \A a \in DOMAIN users, t \in DOMAIN users,
                username \in TradedNames, email \in TradedNames :
                (/\ HeldByOther(t, username, email)
                 /\ admin_required(a)
                 /\ ~(is_admin(t) /\ t # a)
                 /\ AdminEditUser(a, t, username, email, users[t].role,
                                  users[t].is_active)) =>
                    (users' = users /\ last'.code = 200)]_vars

\* after accounts have traded user names and addresses a sign-up was answered
\* with the form again: its user name or its address is taken
C23_Witness ==
    /\ last.op = "register"
    /\ last.code = 200
    /\ \E u \in DOMAIN users : users[u].username # users[u].email
    /\ \A n \in TradedNames :
          \E u \in DOMAIN users : users[u].username = n \/ users[u].email = n
\* C30: the role and the active flag of an account change only by a request of
\* an admin to an admin route; a sign-up creates an account with role 'user'
\* that is active; no sign-up, login, logout, profile edit, password change,
\* event or registration request changes the role or the active flag of any
\* account
C30_RoleAndActiveOnlyByAdmin ==
    [][/\ \A u \in DOMAIN users \cap DOMAIN users' :
             (\/ users'[u].role # users[u].role
              \/ users'[u].is_active # users[u].is_active) =>
                 /\ last'.op \in AdminOps
                 /\ last'.target = u
                 /\ last'.caller \in DOMAIN users
                 /\ is_admin(last'.caller)
       /\ \A u \in DOMAIN users' \ DOMAIN users :
             /\ last'.op = "register"
             /\ users'[u].role = "user"
             /\ users'[u].is_active
       /\ last'.op \notin AdminOps =>
             \A u \in DOMAIN users \cap DOMAIN users' :
                 /\ users'[u].role = users[u].role
                 /\ users'[u].is_active = users[u].is_active]_vars

\* an account that an admin made organizer has just changed its profile, while
\* the account that signed up is deactivated
C30_Witness ==
    /\ last.op = "edit_profile"
    /\ last.code = 302
    /\ \E u \in DOMAIN users : u > 3 /\ users[u].role = "user" /\ ~users[u].is_active
    /\ last.caller \in DOMAIN users
    /\ users[last.caller].role = "organizer"
    /\ users[last.caller].is_active
    /\ users[last.caller].first_name # users[last.caller].username
====
